---- MODULE Spec2Model ----
(***************************************************************************)
(* Model of compute_alignments (src/smith_waterman.py): the Smith-Waterman *)
(* matrix fill with a per-length gap search, followed by the round-by-round *)
(* traceback that materialises the alignments.                             *)
(*                                                                         *)
(* One FillCell step is one iteration of the inner `for j` loop, one Round *)
(* step is one iteration of `while now_computing > 0`.  Strings are        *)
(* sequences of one-character strings.  Python's indexing is kept: a       *)
(* negative index counts from the end, an index outside the list raises    *)
(* IndexError, a missing dictionary key raises KeyError, and an exception  *)
(* leaves compute_alignments without a return value.                       *)
(*                                                                         *)
(* Direction strings 'p', 's', 'd<n>', 'i<n>' are kept as records          *)
(* [dir, len]: str(n) / int(text[1:]) is exact on the positive lengths the *)
(* fill produces.  Alignment.finalize only derives the printable fields    *)
(* `final` and `header` from the fields kept here and nothing in           *)
(* compute_alignments reads them back, so they are not carried.            *)
(***************************************************************************)
EXTENDS Integers, Sequences, FiniteSets, TLC

\* Longest query / subject explored.
MaxLen == 3

Symbols == {"A", "G"}

\* scoring_dict[a][b] as read_scoring_matrix builds it: a partial map on pairs.
StdScoring == (<<"A", "A">> :> 2) @@ (<<"G", "G">> :> 2) @@
              (<<"A", "G">> :> -1) @@ (<<"G", "A">> :> -1)
NonPositiveScoring == (<<"A", "A">> :> -1) @@ (<<"G", "G">> :> 0) @@
                      (<<"A", "G">> :> -1) @@ (<<"G", "A">> :> -1)
FavourableScoring == (<<"A", "A">> :> 2) @@ (<<"G", "G">> :> 1) @@
                     (<<"A", "G">> :> 1) @@ (<<"G", "A">> :> -1)
PartialScoring == (<<"A", "A">> :> 2) @@ (<<"A", "G">> :> -1)

ScoringModels == {StdScoring, NonPositiveScoring, FavourableScoring, PartialScoring}

\* <<gap_opening, gap_extension>>
GapParams == {<<2, 1>>, <<0, 0>>, <<1, 0>>, <<-1, 0>>}

SeqsUpTo(n) == UNION {[1..k -> Symbols] : k \in 0..n}

VARIABLES
    query,              \* query.sequence_str
    subject,            \* subject.sequence_str
    scoring_dict,
    gap_opening,
    gap_extension,
    find_all,
    numbers_matrix,     \* [0..|query|][0..|subject|]
    direction_matrix,   \* same shape, each cell a list of direction tags
    max_value,
    max_positions,      \* list of <<i, j>>
    number_count,
    i,                  \* loop variable of `for i in range(1, len(query)+1)`
    j,                  \* loop variable of `for j in range(1, len(subject)+1)`
    alignments,         \* the pending Alignment objects
    found_alignments,
    now_computing,
    rounds,             \* history: iterations of the while loop so far
    found_round,        \* history: found_round[k] = round that completed found_alignments[k]
    pc,                 \* "fill", "trace", "done", "error"
    error,              \* "none", "KeyError", "IndexError"
    result              \* the returned list (empty until pc = "done")

vars == <<query, subject, scoring_dict, gap_opening, gap_extension, find_all,
          numbers_matrix, direction_matrix, max_value, max_positions,
          number_count, i, j, alignments, found_alignments, now_computing,
          rounds, found_round, pc, error, result>>

inputs == <<query, subject, scoring_dict, gap_opening, gap_extension, find_all>>

n == Len(query)
m == Len(subject)

Max2(a, b) == IF a >= b THEN a ELSE b

g(opening, extension, gap_length) == opening + extension * gap_length

HasScore(a, b) == <<a, b>> \in DOMAIN scoring_dict

----------------------------------------------------------------------------
(* Matrix fill *)

\* variant: the scan replaces on a tie as well
GapImprovesOrTies(new_value, best) == new_value >= best

\* `if new_ivalue > insert` / `if new_dvalue > delete`
GapImproves(new_value, best) == new_value > best

\* for k in range(j): best insertion ending at (row, col)
RECURSIVE InsertScan(_, _, _, _)
InsertScan(row, col, k, best) ==
    IF k >= col THEN best
    ELSE LET new_ivalue == numbers_matrix[row][k]
                           - g(gap_opening, gap_extension, col - k)
         IN InsertScan(row, col, k + 1,
                IF GapImproves(new_ivalue, best.value)
                THEN [value |-> new_ivalue, length |-> col - k]
                ELSE best)

\* for k in range(i): best deletion ending at (row, col)
RECURSIVE DeleteScan(_, _, _, _)
DeleteScan(row, col, k, best) ==
    IF k >= row THEN best
    ELSE LET new_dvalue == numbers_matrix[k][col]
                           - g(gap_opening, gap_extension, row - k)
         IN DeleteScan(row, col, k + 1,
                IF GapImproves(new_dvalue, best.value)
                THEN [value |-> new_dvalue, length |-> row - k]
                ELSE best)

\* variant: the insertion candidate is left out of the maximum
CellValueNoInsert(pair, delete, insert) == Max2(Max2(0, pair), delete)

\* max([0, pair, delete, insert])
CellValue(pair, delete, insert) == Max2(Max2(0, pair), Max2(delete, insert))

Tag(d, l) == [dir |-> d, len |-> l]

Directions(cell_value, pair, del, ins) ==
    IF cell_value = 0 THEN <<Tag("s", 0)>>
    ELSE (IF cell_value = pair THEN <<Tag("p", 0)>> ELSE <<>>)
         \o (IF cell_value = del.value THEN <<Tag("d", del.length)>> ELSE <<>>)
         \o (IF cell_value = ins.value THEN <<Tag("i", ins.length)>> ELSE <<>>)

\* direction[:1]
FirstOnly(direction) == IF Len(direction) > 1 THEN <<direction[1]>> ELSE direction

\* variant: a tie resets the maximum as well
IsNewMaxOrTies(current_value, best) == current_value >= best

\* `if current_value > max_value`
IsNewMax(current_value, best) == current_value > best

MaxPositionsAfter(current_value) ==
    IF IsNewMax(current_value, max_value) THEN <<(<<i, j>>)>>
    ELSE IF current_value = max_value /\ find_all
         THEN Append(max_positions, <<i, j>>)
         ELSE max_positions

FillPending == pc = "fill" /\ i <= n /\ m >= 1

FillCell ==
    /\ FillPending
    /\ HasScore(query[i], subject[j])
    /\ LET pair == numbers_matrix[i - 1][j - 1] + scoring_dict[<<query[i], subject[j]>>]
           ins == InsertScan(i, j, 0, [value |-> 0, length |-> 0])
           del == DeleteScan(i, j, 0, [value |-> 0, length |-> 0])
           current_value == CellValue(pair, del.value, ins.value)
           direction == Directions(current_value, pair, del, ins)
       IN /\ max_value' = IF IsNewMax(current_value, max_value)
                          THEN current_value ELSE max_value
          /\ max_positions' = MaxPositionsAfter(current_value)
          /\ numbers_matrix' = [numbers_matrix EXCEPT ![i][j] = current_value]
          /\ direction_matrix' = [direction_matrix EXCEPT ![i][j] =
                                    IF find_all THEN direction ELSE FirstOnly(direction)]
    /\ IF j < m THEN i' = i /\ j' = j + 1 ELSE i' = i + 1 /\ j' = 1
    /\ UNCHANGED <<inputs, number_count, alignments, found_alignments,
                   now_computing, rounds, found_round, pc, error, result>>

\* variant: the failed lookup is swallowed and the cell skipped
FillCellSkipsUnknown ==
    /\ pc = "fill" /\ i <= Len(query) /\ Len(subject) >= 1
    /\ <<query[i], subject[j]>> \notin DOMAIN scoring_dict
    /\ IF j < Len(subject) THEN i' = i /\ j' = j + 1 ELSE i' = i + 1 /\ j' = 1
    /\ UNCHANGED <<inputs, numbers_matrix, direction_matrix, max_value,
                   max_positions, number_count, alignments, found_alignments,
                   now_computing, rounds, found_round, pc, error, result>>

\* scoring_dict[...][...] raises KeyError; the caller's except clause exits.
FillCellKeyError ==
    /\ FillPending
    /\ ~HasScore(query[i], subject[j])
    /\ pc' = "error"
    /\ error' = "KeyError"
    /\ UNCHANGED <<inputs, numbers_matrix, direction_matrix, max_value,
                   max_positions, number_count, i, j, alignments,
                   found_alignments, now_computing, rounds, found_round, result>>

----------------------------------------------------------------------------
(* Traceback *)

Alignment(q_str, s_str, g_str, end, score, row, col) ==
    [q_str |-> q_str, s_str |-> s_str, g_str |-> g_str, end |-> end,
     score |-> score, done |-> FALSE, i |-> row, j |-> col]

RECURSIVE InitialAlignments(_)
InitialAlignments(positions) ==
    IF positions = <<>> THEN <<>>
    ELSE <<Alignment(<<>>, <<>>, <<>>, Head(positions), max_value,
                     Head(positions)[1], Head(positions)[2])>>
         \o InitialAlignments(Tail(positions))

InitAlignments ==
    /\ pc = "fill"
    /\ ~FillPending
    /\ alignments' = InitialAlignments(max_positions)
    /\ now_computing' = Len(max_positions)
    /\ pc' = "trace"
    /\ UNCHANGED <<inputs, numbers_matrix, direction_matrix, max_value,
                   max_positions, number_count, i, j, found_alignments,
                   rounds, found_round, error, result>>

\* Python list / string indexing with index k on a list of length len:
\* valid for -len <= k < len, a negative k counts from the end.
InRange(k, len) == -len <= k /\ k < len
PyAt(s, k) == IF k >= 0 THEN s[k + 1] ELSE s[Len(s) + k + 1]
\* the same on the matrices, whose rows and columns are numbered from 0
PyRow(k, len) == IF k >= 0 THEN k ELSE len + k

\* variant: the walk steps forward
MoveForward(pos, length) == pos + length

\* i = i - length, j = j - length (length 1 for 'p')
MoveBack(pos, length) == pos - length

\* The symbols a gap of `length` ending at Python index `last` consumes:
\* for l in range(length): add = seq[last - l] + add
GapSymbols(s, last, length) == [k \in 1..length |-> PyAt(s, last - (length - k))]
GapInRange(s, last, length) == \A l \in 0..(length - 1) : InRange(last - l, Len(s))
Repeat(ch, length) == [k \in 1..length |-> ch]

\* if not alignmentstart_found: new_alignments.append(Alignment(...)); the new
\* object takes the loop's current i and j.
Spawn(a, st, q_add, s_add, g_add) ==
    IF st.start_found THEN st
    ELSE [st EXCEPT !.new = Append(@, Alignment(q_add \o a.q_str, s_add \o a.s_str,
                                                g_add \o a.g_str, a.end, a.score,
                                                st.i, st.j))]

\* variant: the counter is not advanced
SameNumber(count) == count

\* number_count += 1
NextNumber(count) == count + 1

\* One iteration of `for current_direction in current_directions`.  st carries
\* the locals i and j, which the loop body assigns and does not reset.
ApplyDirection(a, st, tag) ==
    IF st.err # "none" THEN st
    ELSE IF tag.dir = "p" THEN
        IF ~InRange(st.i - 1, n) \/ ~InRange(st.j - 1, m)
        THEN [st EXCEPT !.err = "IndexError"]
        ELSE LET q_add == PyAt(query, st.i - 1)
                 s_add == PyAt(subject, st.j - 1)
             IN IF q_add # s_add /\ ~HasScore(q_add, s_add)
                THEN [st EXCEPT !.err = "KeyError"]
                ELSE LET g_add == IF q_add = s_add THEN q_add
                                  ELSE IF scoring_dict[<<q_add, s_add>>] > 0
                                       THEN "+" ELSE " "
                     IN Spawn(a, [st EXCEPT !.i = MoveBack(@, 1), !.j = MoveBack(@, 1)],
                              <<q_add>>, <<s_add>>, <<g_add>>)
    ELSE IF tag.dir = "i" THEN
        IF ~GapInRange(subject, st.j - 1, tag.len)
        THEN [st EXCEPT !.err = "IndexError"]
        ELSE Spawn(a, [st EXCEPT !.j = MoveBack(@, tag.len)],
                   Repeat("-", tag.len),
                   GapSymbols(subject, st.j - 1, tag.len),
                   Repeat(" ", tag.len))
    ELSE IF tag.dir = "d" THEN
        IF ~GapInRange(query, st.i - 1, tag.len)
        THEN [st EXCEPT !.err = "IndexError"]
        ELSE Spawn(a, [st EXCEPT !.i = MoveBack(@, tag.len)],
                   GapSymbols(query, st.i - 1, tag.len),
                   Repeat("-", tag.len),
                   Repeat(" ", tag.len))
    ELSE \* 's': set_starting_points(i, j), set_number(number_count)
        [st EXCEPT !.start_found = TRUE,
                   !.found = Append(@, [q_str |-> a.q_str, s_str |-> a.s_str,
                                        g_str |-> a.g_str, end |-> a.end,
                                        score |-> a.score, done |-> TRUE,
                                        q_start |-> st.i + 1, s_start |-> st.j + 1,
                                        nr |-> st.count]),
                   !.found_in = Append(@, rounds + 1),
                   !.count = NextNumber(@)]

RECURSIVE ApplyDirections(_, _, _)
ApplyDirections(a, st, current_directions) ==
    IF current_directions = <<>> THEN st
    ELSE ApplyDirections(a, ApplyDirection(a, st, Head(current_directions)),
                         Tail(current_directions))

\* The body of `for a in alignments` for one pending alignment.
ProcessAlignment(a, st) ==
    IF st.err # "none" THEN st
    ELSE IF ~InRange(a.i, n + 1) \/ ~InRange(a.j, m + 1)
         THEN [st EXCEPT !.err = "IndexError"]
         ELSE ApplyDirections(a,
                  [st EXCEPT !.i = a.i, !.j = a.j, !.start_found = FALSE],
                  direction_matrix[PyRow(a.i, n + 1)][PyRow(a.j, m + 1)])

RECURSIVE ProcessAll(_, _)
ProcessAll(pending, st) ==
    IF pending = <<>> THEN st
    ELSE ProcessAll(Tail(pending), ProcessAlignment(Head(pending), st))

\* One iteration of `while now_computing > 0`.  `alignments` is rebound to a
\* copy of new_alignments after every element, the for loop keeps iterating
\* the list it started on, so the last rebinding is the whole new generation.
RoundResult ==
    ProcessAll(alignments,
               [i |-> 0, j |-> 0, start_found |-> FALSE, new |-> <<>>,
                found |-> found_alignments, found_in |-> found_round,
                count |-> number_count, err |-> "none"])

Round ==
    /\ pc = "trace"
    /\ now_computing > 0
    /\ LET res == RoundResult
       IN /\ res.err = "none"
          /\ alignments' = res.new
          /\ now_computing' = Len(res.new)
          /\ found_alignments' = res.found
          /\ found_round' = res.found_in
          /\ number_count' = res.count
    /\ rounds' = rounds + 1
    /\ UNCHANGED <<inputs, numbers_matrix, direction_matrix, max_value,
                   max_positions, i, j, pc, error, result>>

\* An exception inside the while loop leaves compute_alignments.
RoundError ==
    /\ pc = "trace"
    /\ now_computing > 0
    /\ RoundResult.err # "none"
    /\ pc' = "error"
    /\ error' = RoundResult.err
    /\ UNCHANGED <<inputs, numbers_matrix, direction_matrix, max_value,
                   max_positions, number_count, i, j, alignments,
                   found_alignments, now_computing, rounds, found_round, result>>

\* return found_alignments
Return ==
    /\ pc = "trace"
    /\ now_computing = 0
    /\ pc' = "done"
    /\ result' = found_alignments
    /\ UNCHANGED <<inputs, numbers_matrix, direction_matrix, max_value,
                   max_positions, number_count, i, j, alignments,
                   found_alignments, now_computing, rounds, found_round, error>>

----------------------------------------------------------------------------
Init ==
    /\ query \in SeqsUpTo(MaxLen)
    /\ subject \in SeqsUpTo(MaxLen)
    /\ scoring_dict \in ScoringModels
    /\ \E gp \in GapParams : gap_opening = gp[1] /\ gap_extension = gp[2]
    /\ find_all \in BOOLEAN
    /\ numbers_matrix = [r \in 0..n |-> [c \in 0..m |-> 0]]
    /\ direction_matrix = [r \in 0..n |-> [c \in 0..m |-> <<Tag("s", 0)>>]]
    /\ max_value = 0
    /\ max_positions = <<(<<0, 0>>)>>
    /\ number_count = 1
    /\ i = 1
    /\ j = 1
    /\ alignments = <<>>
    /\ found_alignments = <<>>
    /\ now_computing = 0
    /\ rounds = 0
    /\ found_round = <<>>
    /\ pc = "fill"
    /\ error = "none"
    /\ result = <<>>

Next ==
    \/ FillCell
    \/ FillCellKeyError
    \/ InitAlignments
    \/ Round
    \/ RoundError
    \/ Return

Spec == Init /\ [][Next]_vars

----------------------------------------------------------------------------
(* Vocabulary of the properties *)

SetMax(S) == CHOOSE x \in S : \A y \in S : y <= x
SetMin(S) == CHOOSE x \in S : \A y \in S : x <= y

Cells == (1..n) \X (1..m)

\* (r, c) has been written by the fill loop
Filled(r, c) == r < i \/ (r = i /\ c < j)

FillComplete == pc \in {"trace", "done"} \/ (pc = "error" /\ error # "KeyError")

RowMajorBefore(p1, p2) == p1[1] < p2[1] \/ (p1[1] = p2[1] /\ p1[2] < p2[2])

DiagonalValue(r, c) ==
    numbers_matrix[r - 1][c - 1] + scoring_dict[<<query[r], subject[c]>>]
DeleteValue(r, c, len) ==
    numbers_matrix[r - len][c] - g(gap_opening, gap_extension, len)
InsertValue(r, c, len) ==
    numbers_matrix[r][c - len] - g(gap_opening, gap_extension, len)

RecurrenceValue(r, c) ==
    SetMax({0, DiagonalValue(r, c)}
           \cup {DeleteValue(r, c, len) : len \in 1..r}
           \cup {InsertValue(r, c, len) : len \in 1..c})

\* gap lengths that attain the best deletion / insertion value at (r, c)
BestDeleteLengths(r, c) ==
    {len \in 1..r : \A other \in 1..r : DeleteValue(r, c, other) <= DeleteValue(r, c, len)}
BestInsertLengths(r, c) ==
    {len \in 1..c : \A other \in 1..c : InsertValue(r, c, other) <= InsertValue(r, c, len)}

TagsOf(r, c) == {direction_matrix[r][c][k] : k \in 1..Len(direction_matrix[r][c])}

----------------------------------------------------------------------------
\* C8: after the fill every cell (r, c) with r, c >= 1 holds
\* max(0, diagonal, best deletion over all lengths, best insertion over all
\* lengths); row 0 and column 0 are 0 with the single tag 's'; every score is
\* >= 0, whatever the gap parameters.
C8_CellRecurrence ==
    /\ \A r \in 0..n, c \in 0..m :
          /\ numbers_matrix[r][c] >= 0
          /\ (r = 0 \/ c = 0) =>
                numbers_matrix[r][c] = 0 /\ direction_matrix[r][c] = <<Tag("s", 0)>>
    /\ \A rc \in Cells :
          Filled(rc[1], rc[2]) =>
             numbers_matrix[rc[1]][rc[2]] = RecurrenceValue(rc[1], rc[2])

\* a finished fill under a negative gap penalty in which an insertion alone
\* decides some cell
C8_Witness ==
    /\ FillComplete
    /\ gap_opening < 0
    /\ \E rc \in Cells :
          /\ numbers_matrix[rc[1]][rc[2]] > Max2(0, DiagonalValue(rc[1], rc[2]))
          /\ \A len \in 1..rc[1] :
                DeleteValue(rc[1], rc[2], len) < numbers_matrix[rc[1]][rc[2]]

\* C9 (as amended): on a tie between gap lengths with the same best positive
\* value the recorded Delete / Insert length is the LARGEST tying length (the
\* scan runs k upwards, i.e. from the longest gap down, and replaces only on >).
C9_GapTieKeepsLargest ==
    \A rc \in Cells :
        Filled(rc[1], rc[2]) =>
            \A tag \in TagsOf(rc[1], rc[2]) :
                /\ tag.dir = "d" => tag.len = SetMax(BestDeleteLengths(rc[1], rc[2]))
                /\ tag.dir = "i" => tag.len = SetMax(BestInsertLengths(rc[1], rc[2]))

\* C9 as claimed: the smallest tying length is recorded.
C9_GapTieKeepsSmallest ==
    \A rc \in Cells :
        Filled(rc[1], rc[2]) =>
            \A tag \in TagsOf(rc[1], rc[2]) :
                /\ tag.dir = "d" => tag.len = SetMin(BestDeleteLengths(rc[1], rc[2]))
                /\ tag.dir = "i" => tag.len = SetMin(BestInsertLengths(rc[1], rc[2]))

\* a filled cell with a Delete tag and one with an Insert tag, each with at
\* least two tying best lengths
C9_Witness ==
    /\ gap_opening >= 0
    /\ \E rc \in Cells :
          /\ Filled(rc[1], rc[2])
          /\ \E tag \in TagsOf(rc[1], rc[2]) : tag.dir = "d"
          /\ Cardinality(BestDeleteLengths(rc[1], rc[2])) >= 2
    /\ \E rc \in Cells :
          /\ Filled(rc[1], rc[2])
          /\ \E tag \in TagsOf(rc[1], rc[2]) : tag.dir = "i"
          /\ Cardinality(BestInsertLengths(rc[1], rc[2])) >= 2

GlobalMax == SetMax({0} \cup {numbers_matrix[rc[1]][rc[2]] : rc \in Cells})
MaxCells == {rc \in Cells : numbers_matrix[rc[1]][rc[2]] = GlobalMax}
FirstMaxCell == CHOOSE rc \in MaxCells : \A other \in MaxCells \ {rc} : RowMajorBefore(rc, other)

IsEmptyAlignment(f) ==
    f.q_str = <<>> /\ f.s_str = <<>> /\ f.g_str = <<>> /\ f.score = 0

\* C3 as claimed: when the global maximum is 0 exactly one alignment is
\* returned, with empty aligned strings and score 0, in both find_all modes.
C3_ZeroMaximumSingle ==
    (pc = "done" /\ max_value = 0) =>
        Len(result) = 1 /\ IsEmptyAlignment(result[1])

\* C4: with find_all = false and a positive maximum exactly one alignment is
\* returned and it ends at the first cell, in row-major order, that holds the
\* global maximum of the matrix.
C4_SingleResultFirstMax ==
    (pc = "done" /\ ~find_all /\ max_value > 0) =>
        /\ max_value = GlobalMax
        /\ Len(result) = 1
        /\ result[1].end = FirstMaxCell
        /\ result[1].score = GlobalMax

\* a run returned in single-result mode, under non-negative gap penalties,
\* where a later cell ties the maximum and the second cell of the path has a
\* diagonal and an insertion predecessor of equal value
C4_Witness ==
    /\ pc = "done" /\ ~find_all /\ max_value > 0 /\ gap_opening >= 0
    /\ Cardinality(MaxCells) >= 2
    /\ Len(result) = 1
    /\ LET e == result[1].end
       IN /\ direction_matrix[e[1]][e[2]] = <<Tag("p", 0)>>
          /\ e[1] > 1 /\ e[2] > 1
          /\ numbers_matrix[e[1] - 1][e[2] - 1] > 0
          /\ DiagonalValue(e[1] - 1, e[2] - 1) = numbers_matrix[e[1] - 1][e[2] - 1]
          /\ \E len \in 1..(e[2] - 1) :
                InsertValue(e[1] - 1, e[2] - 1, len) = numbers_matrix[e[1] - 1][e[2] - 1]

MissingPairs == {rc \in Cells : ~HasScore(query[rc[1]], subject[rc[2]])}

\* C6: if some position pair has no scoring entry the fill stops at the first
\* such pair (row-major) with a KeyError, the traceback is never entered and
\* nothing is returned; if every pair has an entry no KeyError occurs.
C6_UnknownSymbolAborts ==
    /\ [](/\ MissingPairs # {} =>
                /\ pc \in {"fill", "error"}
                /\ alignments = <<>> /\ found_alignments = <<>> /\ result = <<>>
          /\ error = "KeyError" =>
                /\ pc = "error"
                /\ <<i, j>> \in MissingPairs
                /\ \A rc \in MissingPairs \ {<<i, j>>} : RowMajorBefore(<<i, j>>, rc)
          /\ MissingPairs = {} => error # "KeyError")
    /\ [][(FillPending /\ <<i, j>> \in MissingPairs) =>
             (pc' = "error" /\ error' = "KeyError" /\ result' = <<>>)]_vars

\* the fill has stopped on an unknown pair after writing at least one cell
C6_Witness ==
    /\ pc = "error" /\ error = "KeyError"
    /\ \E rc \in Cells : Filled(rc[1], rc[2]) /\ numbers_matrix[rc[1]][rc[2]] > 0

----------------------------------------------------------------------------
(* Traceback properties *)

InMatrix(a) == 0 <= a.i /\ a.i <= n /\ 0 <= a.j /\ a.j <= m

\* the direction list the traceback reads for a pending alignment
DirectionsAt(a) == direction_matrix[PyRow(a.i, n + 1)][PyRow(a.j, m + 1)]
StartsHere(a) == DirectionsAt(a) = <<Tag("s", 0)>>
Continues(a) == ~StartsHere(a)

RoundStep == rounds' = rounds + 1

RECURSIVE DirsOf(_)
DirsOf(tags) == IF tags = <<>> THEN <<>> ELSE <<Head(tags).dir>> \o DirsOf(Tail(tags))

\* the tags, in cell order, of the pending alignments that are not at a start
RECURSIVE PendingDirs(_)
PendingDirs(pending) ==
    IF pending = <<>> THEN <<>>
    ELSE (IF StartsHere(Head(pending)) THEN <<>> ELSE DirsOf(DirectionsAt(Head(pending))))
         \o PendingDirs(Tail(pending))

\* which kind of step a successor was built by, read off its newest column
BuiltBy(a) == IF Head(a.q_str) = "-" THEN "i"
              ELSE IF Head(a.s_str) = "-" THEN "d" ELSE "p"

RECURSIVE BuiltBys(_)
BuiltBys(pending) ==
    IF pending = <<>> THEN <<>> ELSE <<BuiltBy(Head(pending))>> \o BuiltBys(Tail(pending))

RECURSIVE Ends(_)
Ends(list) == IF list = <<>> THEN <<>> ELSE <<Head(list).end>> \o Ends(Tail(list))

\* C5: the alignments carry the ordinals 1..N in list order with no gap and no
\* repeat; an alignment completed in an earlier round precedes every one
\* completed later; within a round the completed alignments are numbered in
\* the order of the pending list, which starts as max_positions (row-major)
\* and is extended in the tag order p, d, i.
C5_OrdinalOrder ==
    /\ [](/\ \A k \in 1..Len(found_alignments) : found_alignments[k].nr = k
          /\ number_count = Len(found_alignments) + 1
          /\ Len(found_round) = Len(found_alignments)
          /\ \A k, l \in 1..Len(found_round) : k < l => found_round[k] <= found_round[l]
          /\ \A k \in 1..(Len(max_positions) - 1) :
                RowMajorBefore(max_positions[k], max_positions[k + 1])
          /\ pc = "trace" /\ rounds = 0 => Ends(alignments) = max_positions
          /\ pc = "done" => result = found_alignments)
    /\ [][RoundStep =>
            LET completed == SelectSeq(alignments, StartsHere)
                before == Len(found_alignments)
            IN /\ Len(found_alignments') = before + Len(completed)
               /\ SubSeq(found_alignments', 1, before) = found_alignments
               /\ \A k \in 1..Len(completed) :
                     LET f == found_alignments'[before + k]
                     IN /\ f.nr = before + k
                        /\ f.end = completed[k].end
                        /\ f.q_str = completed[k].q_str
                        /\ f.s_str = completed[k].s_str
                        /\ found_round'[before + k] = rounds'
               /\ BuiltBys(alignments') = PendingDirs(alignments)]_vars

\* a finished run with three or more alignments, two of them completed in the
\* same round and one in a later round
C5_Witness ==
    /\ pc = "done"
    /\ Len(result) >= 3
    /\ \E k \in 1..(Len(result) - 2) :
          found_round[k] = found_round[k + 1] /\ found_round[k + 1] < found_round[k + 2]

NonNegativeGaps == gap_opening >= 0 /\ gap_extension >= 0

IsSuffix(s, t) == Len(s) <= Len(t) /\ SubSeq(t, Len(t) - Len(s) + 1, Len(t)) = s

\* C10: with non-negative gap penalties the traceback never leaves the matrix
\* and every round moves every pending path to a cell with strictly smaller
\* row + col or finalises it, so that after at most |query| + |subject| + 1
\* rounds nothing is pending and every max cell is the end of a returned
\* alignment; while the traceback runs its next step is a round that raises
\* nothing or the return, so the bounded round count is reached by progress.
C10_TracebackTerminates ==
    /\ [](NonNegativeGaps =>
            /\ error # "IndexError"
            /\ rounds <= n + m + 1
            /\ now_computing = Len(alignments)
            /\ pc = "trace" => (now_computing = 0 \/ RoundResult.err = "none")
            /\ \A k \in 1..Len(alignments) :
                  /\ InMatrix(alignments[k])
                  /\ alignments[k].i + alignments[k].j <= n + m - rounds
            /\ pc = "done" =>
                  /\ alignments = <<>>
                  /\ \A k \in 1..Len(max_positions) :
                        \E l \in 1..Len(result) : result[l].end = max_positions[k])
    /\ [][(NonNegativeGaps /\ RoundStep) =>
            /\ \A l \in 1..Len(alignments') :
                  \E k \in 1..Len(alignments) :
                     /\ Continues(alignments[k])
                     /\ alignments'[l].end = alignments[k].end
                     /\ alignments'[l].i <= alignments[k].i
                     /\ alignments'[l].j <= alignments[k].j
                     /\ alignments'[l].i + alignments'[l].j
                           < alignments[k].i + alignments[k].j
                     /\ IsSuffix(alignments[k].q_str, alignments'[l].q_str)
            /\ \A k \in 1..Len(alignments) :
                  IF StartsHere(alignments[k])
                  THEN \E l \in (Len(found_alignments) + 1)..Len(found_alignments') :
                          /\ found_alignments'[l].end = alignments[k].end
                          /\ found_alignments'[l].q_str = alignments[k].q_str
                  ELSE \E l \in 1..Len(alignments') :
                          /\ alignments'[l].end = alignments[k].end
                          /\ IsSuffix(alignments[k].q_str, alignments'[l].q_str)
                          /\ Len(alignments'[l].q_str) > Len(alignments[k].q_str)]_vars

\* a traceback under non-negative penalties that needed at least three rounds,
\* branched, and returned
C10_Witness ==
    /\ pc = "done" /\ NonNegativeGaps
    /\ rounds >= 3
    /\ Len(result) > Len(max_positions)

IsGap(ch) == ch = "-"
IsSymbol(ch) == ch # "-"
Degap(s) == SelectSeq(s, IsSymbol)

\* the successor the tag of a cell calls for, taken from the pending
\* alignment's own cell (a.i, a.j)
ExpectedSuccessor(a, tag) ==
    IF tag.dir = "p"
    THEN [i |-> a.i - 1, j |-> a.j - 1,
          q_str |-> <<query[a.i]>> \o a.q_str,
          s_str |-> <<subject[a.j]>> \o a.s_str]
    ELSE IF tag.dir = "d"
    THEN [i |-> a.i - tag.len, j |-> a.j,
          q_str |-> SubSeq(query, a.i - tag.len + 1, a.i) \o a.q_str,
          s_str |-> Repeat("-", tag.len) \o a.s_str]
    ELSE [i |-> a.i, j |-> a.j - tag.len,
          q_str |-> Repeat("-", tag.len) \o a.q_str,
          s_str |-> SubSeq(subject, a.j - tag.len + 1, a.j) \o a.s_str]

RECURSIVE ExpectedSuccessors(_, _)
ExpectedSuccessors(a, tags) ==
    IF tags = <<>> THEN <<>>
    ELSE (IF Head(tags).dir = "s" THEN <<>> ELSE <<ExpectedSuccessor(a, Head(tags))>>)
         \o ExpectedSuccessors(a, Tail(tags))

RECURSIVE ExpectedGeneration(_)
ExpectedGeneration(pending) ==
    IF pending = <<>> THEN <<>>
    ELSE ExpectedSuccessors(Head(pending), DirectionsAt(Head(pending)))
         \o ExpectedGeneration(Tail(pending))

RECURSIVE PositionsAndStrings(_)
PositionsAndStrings(pending) ==
    IF pending = <<>> THEN <<>>
    ELSE <<[i |-> Head(pending).i, j |-> Head(pending).j,
            q_str |-> Head(pending).q_str, s_str |-> Head(pending).s_str]>>
         \o PositionsAndStrings(Tail(pending))

\* C7 as claimed: in a round every non-start tag of a pending path's cell
\* (row, col) gives exactly one successor whose position and prepended
\* symbols are computed from (row, col) itself, for the second and third tag
\* of a cell as for the first.
C7_TagsStepFromOwnCell ==
    [][(RoundStep /\ \A k \in 1..Len(alignments) : InMatrix(alignments[k])) =>
          PositionsAndStrings(alignments') = ExpectedGeneration(alignments)]_vars

\* 1-based inclusive slice, defined when the coordinates lie in the sequence
Fidelity(s, aligned, from, to) ==
    /\ 1 <= from /\ from <= to + 1 /\ to <= Len(s)
    /\ Degap(aligned) = SubSeq(s, from, to)

\* C1 as claimed: for every returned alignment the aligned query without its
\* gap markers is query[q_start..q_end] and the aligned subject without its
\* gap markers is subject[s_start..s_end].
C1_SubstringFidelity ==
    pc = "done" =>
        \A k \in 1..Len(result) :
            /\ Fidelity(query, result[k].q_str, result[k].q_start, result[k].end[1])
            /\ Fidelity(subject, result[k].s_str, result[k].s_start, result[k].end[2])

\* sum of the pairwise scores of the columns that hold no gap marker
RECURSIVE PairSum(_, _)
PairSum(qs, ss) ==
    IF qs = <<>> \/ ss = <<>> THEN 0
    ELSE (IF IsSymbol(Head(qs)) /\ IsSymbol(Head(ss))
          THEN scoring_dict[<<Head(qs), Head(ss)>>] ELSE 0)
         + PairSum(Tail(qs), Tail(ss))

\* sum of g(run length) over the maximal runs of gap markers of s;
\* run = length of the run that ends just before the rest
RECURSIVE GapRunPenalty(_, _)
GapRunPenalty(s, run) ==
    IF s = <<>>
    THEN (IF run > 0 THEN g(gap_opening, gap_extension, run) ELSE 0)
    ELSE IF IsGap(Head(s)) THEN GapRunPenalty(Tail(s), run + 1)
    ELSE (IF run > 0 THEN g(gap_opening, gap_extension, run) ELSE 0)
         + GapRunPenalty(Tail(s), 0)

\* C2 as claimed: for every returned alignment the pairwise scores of its
\* aligned pairs minus g(length) of every maximal gap run equal its reported
\* score, which is max_value.
C2_ScoreDecomposition ==
    pc = "done" =>
        \A k \in 1..Len(result) :
            /\ result[k].score = max_value
            /\ Len(result[k].q_str) = Len(result[k].s_str)
            /\ PairSum(result[k].q_str, result[k].s_str)
                 - GapRunPenalty(result[k].q_str, 0)
                 - GapRunPenalty(result[k].s_str, 0) = result[k].score

====
